---- MODULE Spec2Model ----
(***************************************************************************)
(* Grid Adventure Game: the GridGame component of src/src/App.js as a      *)
(* state machine.  The state is the component's useState hooks, the        *)
(* browser's localStorage (the draft store) and the setTimeout callbacks   *)
(* that are still pending.  Every action is one event handler run to       *)
(* completion, followed by the re-render's useEffect callbacks.            *)
(*                                                                         *)
(* Strings the code computes with (cell keys, feedback text, stored        *)
(* drafts) are sequences of one-character strings, so that formatting,     *)
(* trimming and parsing are computed and not assumed.                      *)
(***************************************************************************)
EXTENDS Integers, Sequences, FiniteSets, TLC

\* ------------------------------------------------------------------ bounds
\* Longest feedback text typed into the textarea.
MaxTextLen == 2
\* Most setTimeout(resetGame) callbacks pending at once.
MaxTimers == 2

\* --------------------------------------------------------- configuration
ROWS == 10
COLS == 15
GOAL_X == 14
GOAL_Y == 10
\* useState(1) of x and y: the start cell.
START_X == 1
START_Y == 1

\* The beep frequencies of the three sound cues.
BEEP_BLOCKED == 150
BEEP_MOVE == 500
BEEP_WIN == 1000

STATUS_NONE == ""
STATUS_HIT == "Obstacle hit! Resetting..."
\* The source's message ends with a party-popper emoji, left out here.
STATUS_VICTORY == "Victory!"
ALERT_FEEDBACK == "Please enter your feedback."
ALERT_RATING == "Please rate the game."

\* ------------------------------------------------------- string helpers
DigitChar(d) ==
    CASE d = 0 -> "0" [] d = 1 -> "1" [] d = 2 -> "2" [] d = 3 -> "3"
      [] d = 4 -> "4" [] d = 5 -> "5" [] d = 6 -> "6" [] d = 7 -> "7"
      [] d = 8 -> "8" [] d = 9 -> "9"

RECURSIVE Decimal(_)
\* Number.prototype.toString / template interpolation of a natural number.
Decimal(n) ==
    IF n < 10 THEN <<DigitChar(n)>>
    ELSE Decimal(n \div 10) \o <<DigitChar(n % 10)>>

\* `${newX},${newY}`
\* The key with the row before the column.
CellKeySwapped(cx, cy) == Decimal(cy) \o <<",">> \o Decimal(cx)

CellKey(cx, cy) == Decimal(cx) \o <<",">> \o Decimal(cy)

\* The obstacle list with the first entry's coordinates the wrong way
\* round: "1,2" for "2,1".
OBSTACLE_POSITIONS_Swapped ==
    { <<"1", ",", "2">>, <<"3", ",", "2">>, <<"5", ",", "3">>,
      <<"7", ",", "4">>, <<"9", ",", "5">>, <<"1", "1", ",", "6">>,
      <<"1", "3", ",", "7">>, <<"5", ",", "8">>, <<"8", ",", "9">>,
      <<"1", "0", ",", "1", "0">> }

OBSTACLE_POSITIONS ==
    { <<"2", ",", "1">>, <<"3", ",", "2">>, <<"5", ",", "3">>,
      <<"7", ",", "4">>, <<"9", ",", "5">>, <<"1", "1", ",", "6">>,
      <<"1", "3", ",", "7">>, <<"5", ",", "8">>, <<"8", ",", "9">>,
      <<"1", "0", ",", "1", "0">> }

\* The characters a feedback text is made of: a blank and a letter.
Chars == {" ", "a"}
IsSpace(c) == c = " "

Texts == UNION { [1..n -> Chars] : n \in 0..MaxTextLen }

RECURSIVE TrimStart(_)
TrimStart(s) ==
    IF s = <<>> THEN <<>>
    ELSE IF IsSpace(Head(s)) THEN TrimStart(Tail(s)) ELSE s

RECURSIVE TrimEnd(_)
TrimEnd(s) ==
    IF s = <<>> THEN <<>>
    ELSE IF IsSpace(s[Len(s)]) THEN TrimEnd(SubSeq(s, 1, Len(s) - 1)) ELSE s

\* String.prototype.trim
Trim(s) == TrimEnd(TrimStart(s))

\* ------------------------------------------------------------ localStorage
Absent == [present |-> FALSE, value |-> <<>>]
Stored(v) == [present |-> TRUE, value |-> v]
StorageKeys == {"feedbackDraft", "ratingDraft"}
EmptyStorage == [k \in StorageKeys |-> Absent]

setItem(ls, key, v) == [ls EXCEPT ![key] = Stored(v)]
removeItem(ls, key) == [ls EXCEPT ![key] = Absent]

\* setSubmittedFeedback(null) / setSubmittedFeedback({text, rating})
Null == [isNull |-> TRUE, text |-> <<>>, rating |-> 0]
Snapshot(t, r) == [isNull |-> FALSE, text |-> t, rating |-> r]

VARIABLES
    x, y,               \* player coordinates
    won,                \* the player has reached the goal
    showForm,           \* the feedback form is displayed
    showContactForm,    \* the contact form is displayed
    status,             \* the status message
    feedback, rating,   \* the feedback draft
    submittedFeedback,  \* the feedback after a successful submission
    localStorage,       \* the stored drafts
    timers,             \* setTimeout(resetGame, 1500) callbacks pending
    beeps,              \* the frequencies the last handler beeped, in order
    alerts,             \* the alert() messages of the last handler
    last,               \* the last handler run: its name, input and the
                        \* state it started from
    inputs,             \* the directions of the move attempts since the
                        \* page was loaded, while they follow a scenario
    blockedBefore,      \* a handler before the last one, since the page
                        \* was loaded, sounded the blocked cue
    gameFinished        \* App: the game has finished

hooks == <<x, y, won, showForm, showContactForm, status, feedback, rating,
           submittedFeedback>>
vars == <<x, y, won, showForm, showContactForm, status, feedback, rating,
          submittedFeedback, localStorage, timers, beeps, alerts, last,
          inputs, blockedBefore, gameFinished>>

\* The state a handler starts from.
Current ==
    [x |-> x, y |-> y, won |-> won, showForm |-> showForm,
     showContactForm |-> showContactForm, status |-> status,
     feedback |-> feedback, rating |-> rating,
     submittedFeedback |-> submittedFeedback,
     localStorage |-> localStorage, timers |-> timers]

\* The direction a key stands for.
KeyDirection(key) ==
    CASE key = "w" -> "up" [] key = "s" -> "down" [] key = "a" -> "left"
      [] key = "d" -> "right" [] OTHER -> "none"

\* The scenarios followed: nine times right, and down then right.
NineRights == [i \in 1..9 |-> "right"]
DownRight == <<"down", "right">>
Scenarios == {NineRights, DownRight}
\* The inputs have left every scenario.
Off == <<"off">>
IsPrefix(s, t) == Len(s) <= Len(t) /\ s = SubSeq(t, 1, Len(s))

\* The inputs after handler op has run on arg: a page load starts them, a
\* move attempt in a direction extends them while a scenario goes on that
\* way, a timer callback and a key that moves nothing leave them, and
\* every other handler ends them.
Follow(op, arg) ==
    LET direction == IF op = "handleMove" THEN arg ELSE KeyDirection(arg)
        longer == Append(inputs, direction)
    IN  CASE op = "mount" -> <<>>
          [] op = "timeout" -> inputs
          [] op \in {"handleMove", "keydown"} ->
                 IF direction = "none" THEN inputs
                 ELSE IF inputs # Off /\ \E t \in Scenarios : IsPrefix(longer, t)
                      THEN longer
                      ELSE Off
          [] OTHER -> Off

\* App's handleGameEnd: setGameFinished(true).
handleGameEnd == TRUE

\* Whether handler op of GridGame calls the onGameEnd it is rendered
\* with: GridGame declares no parameter, so that no handler reaches it.
CallsOnGameEnd(op) == FALSE

\* gameFinished after handler op: a page load starts App over.
Finished(op) ==
    IF op = "mount" THEN FALSE
    ELSE IF CallsOnGameEnd(op) THEN handleGameEnd
    ELSE gameFinished

\* What App renders.
AppRenders == IF gameFinished THEN "ContactForm" ELSE "GridGame"

Ran(op, arg) ==
    /\ last' = [op |-> op, arg |-> arg, pre |-> Current]
    /\ gameFinished' = Finished(op)
    /\ inputs' = Follow(op, arg)
    /\ blockedBefore' =
           IF op = "mount" THEN FALSE
           ELSE blockedBefore \/ beeps = <<BEEP_BLOCKED>>

\* ------------------------------------------------------- draft effects
DigitValue(c) ==
    CASE c = "0" -> 0 [] c = "1" -> 1 [] c = "2" -> 2 [] c = "3" -> 3
      [] c = "4" -> 4 [] c = "5" -> 5 [] c = "6" -> 6 [] c = "7" -> 7
      [] c = "8" -> 8 [] c = "9" -> 9 [] OTHER -> -1

\* parseInt of a string that produced no number.
NaN == -1

RECURSIVE ParseDigits(_, _)
ParseDigits(s, acc) ==
    IF s = <<>> \/ DigitValue(Head(s)) < 0 THEN acc
    ELSE ParseDigits(Tail(s), 10 * acc + DigitValue(Head(s)))

\* parseInt(s, 10) of an unsigned string: leading blanks are skipped, the
\* leading digits are read, and no digit at all gives NaN.
ParseInt(s) ==
    LET t == TrimStart(s)
    IN  IF t = <<>> \/ DigitValue(Head(t)) < 0 THEN NaN
        ELSE ParseDigits(t, 0)

\* if (draft): getItem gave a string that is not empty.
Truthy(item) == item.present /\ item.value # <<>>

\* The save effects storing the values of the render before: the closure
\* of each effect holding the old draft.
DraftEffectsStale(ls, f0, f1, r0, r1) ==
    LET ls1 == IF f1 # f0 THEN setItem(ls, "feedbackDraft", f0) ELSE ls
    IN  IF r1 # r0 THEN setItem(ls1, "ratingDraft", Decimal(r0)) ELSE ls1

\* The two save effects, run after a render in which feedback went from f0
\* to f1 and rating from r0 to r1: an effect runs when its dependency
\* changed.
DraftEffects(ls, f0, f1, r0, r1) ==
    LET ls1 == IF f1 # f0 THEN setItem(ls, "feedbackDraft", f1) ELSE ls
    IN  IF r1 # r0 THEN setItem(ls1, "ratingDraft", Decimal(r1)) ELSE ls1

\* The three effects of the first render, in the order they are declared,
\* starting from stored drafts ls: the two saves (of the initial draft),
\* then the load, then the saves the load's setFeedback/setRating cause.
\* (React.StrictMode runs them a second time in development, with the same
\* result.)
MountEffects(ls) ==
    LET ls1 == setItem(ls, "feedbackDraft", <<>>)
        ls2 == setItem(ls1, "ratingDraft", Decimal(0))
        draft == ls2["feedbackDraft"]
        ratingDraft == ls2["ratingDraft"]
        f1 == IF Truthy(draft) THEN draft.value ELSE <<>>
        r1 == IF Truthy(ratingDraft) THEN ParseInt(ratingDraft.value) ELSE 0
    IN  [feedback |-> f1, rating |-> r1,
         localStorage |-> DraftEffects(ls2, <<>>, f1, 0, r1)]

\* ----------------------------------------------------------------- Init
\* The first visit: nothing stored, the component mounted.
Init ==
    /\ x = START_X
    /\ y = START_Y
    /\ won = FALSE
    /\ showForm = FALSE
    /\ showContactForm = FALSE
    /\ status = STATUS_NONE
    /\ feedback = MountEffects(EmptyStorage).feedback
    /\ rating = MountEffects(EmptyStorage).rating
    /\ submittedFeedback = Null
    /\ localStorage = MountEffects(EmptyStorage).localStorage
    /\ timers = 0
    /\ beeps = <<>>
    /\ alerts = <<>>
    /\ last = [op |-> "mount", arg |-> "",
               pre |-> [x |-> START_X, y |-> START_Y, won |-> FALSE,
                        showForm |-> FALSE, showContactForm |-> FALSE,
                        status |-> STATUS_NONE, feedback |-> <<>>,
                        rating |-> 0, submittedFeedback |-> Null,
                        localStorage |-> EmptyStorage, timers |-> 0]]
    /\ inputs = <<>>
    /\ blockedBefore = FALSE
    /\ gameFinished = FALSE

\* resetGame with setWon(false) left out.
resetGameKeepsWon ==
    /\ x' = 1
    /\ y' = 1
    /\ UNCHANGED won
    /\ showForm' = FALSE
    /\ showContactForm' = FALSE
    /\ status' = STATUS_NONE
    /\ feedback' = <<>>
    /\ rating' = 0
    /\ submittedFeedback' = Null
    /\ localStorage' =
           DraftEffects(
               removeItem(removeItem(localStorage, "feedbackDraft"),
                          "ratingDraft"),
               feedback, feedback', rating, rating')

\* resetGame with setSubmittedFeedback(null) left out.
resetGameKeepsSubmitted ==
    /\ x' = 1
    /\ y' = 1
    /\ won' = FALSE
    /\ showForm' = FALSE
    /\ showContactForm' = FALSE
    /\ status' = STATUS_NONE
    /\ feedback' = <<>>
    /\ rating' = 0
    /\ UNCHANGED submittedFeedback
    /\ localStorage' =
           DraftEffects(
               removeItem(removeItem(localStorage, "feedbackDraft"),
                          "ratingDraft"),
               feedback, feedback', rating, rating')

\* resetGame with setStatus("") left out.
resetGameKeepsStatus ==
    /\ x' = 1
    /\ y' = 1
    /\ won' = FALSE
    /\ showForm' = FALSE
    /\ showContactForm' = FALSE
    /\ UNCHANGED status
    /\ feedback' = <<>>
    /\ rating' = 0
    /\ submittedFeedback' = Null
    /\ localStorage' =
           DraftEffects(
               removeItem(removeItem(localStorage, "feedbackDraft"),
                          "ratingDraft"),
               feedback, feedback', rating, rating')

\* resetGame with setX(1) and setY(1) left out.
resetGameKeepsPosition ==
    /\ UNCHANGED <<x, y>>
    /\ won' = FALSE
    /\ showForm' = FALSE
    /\ showContactForm' = FALSE
    /\ status' = STATUS_NONE
    /\ feedback' = <<>>
    /\ rating' = 0
    /\ submittedFeedback' = Null
    /\ localStorage' =
           DraftEffects(
               removeItem(removeItem(localStorage, "feedbackDraft"),
                          "ratingDraft"),
               feedback, feedback', rating, rating')

\* ------------------------------------------------------------- resetGame
\* The body of resetGame and the effects of the render it causes.
resetGame ==
    /\ x' = 1
    /\ y' = 1
    /\ won' = FALSE
    /\ showForm' = FALSE
    /\ showContactForm' = FALSE
    /\ status' = STATUS_NONE
    /\ feedback' = <<>>
    /\ rating' = 0
    /\ submittedFeedback' = Null
    /\ localStorage' =
           DraftEffects(
               removeItem(removeItem(localStorage, "feedbackDraft"),
                          "ratingDraft"),
               feedback, feedback', rating, rating')

\* movePlayer with setY(newY) left out.
movePlayerDropsY(newX, newY) ==
    LET cellKey == CellKey(newX, newY)
    IN  IF cellKey \in OBSTACLE_POSITIONS
        THEN /\ status' = STATUS_HIT
             /\ beeps' = <<BEEP_BLOCKED>>
             /\ timers' = timers + 1
             /\ UNCHANGED <<x, y, won>>
        ELSE /\ x' = newX
             /\ UNCHANGED <<y, timers>>
             /\ IF newX = GOAL_X /\ newY = GOAL_Y
                THEN /\ won' = TRUE
                     /\ status' = STATUS_VICTORY
                     /\ beeps' = <<BEEP_MOVE, BEEP_WIN>>
                ELSE /\ UNCHANGED won
                     /\ status' = STATUS_NONE
                     /\ beeps' = <<BEEP_MOVE>>

\* movePlayer with the return of the obstacle branch left out: the hit is
\* reported and the timer started, and then the move is made all the same.
movePlayerFallsThrough(newX, newY) ==
    LET cellKey == CellKey(newX, newY)
        hit == cellKey \in OBSTACLE_POSITIONS
    IN  /\ x' = newX
        /\ y' = newY
        /\ timers' = IF hit THEN timers + 1 ELSE timers
        /\ IF newX = GOAL_X /\ newY = GOAL_Y
           THEN /\ won' = TRUE
                /\ status' = STATUS_VICTORY
                /\ beeps' = (IF hit THEN <<BEEP_BLOCKED>> ELSE <<>>)
                            \o <<BEEP_MOVE, BEEP_WIN>>
           ELSE /\ UNCHANGED won
                /\ status' = STATUS_NONE
                /\ beeps' = (IF hit THEN <<BEEP_BLOCKED>> ELSE <<>>)
                            \o <<BEEP_MOVE>>

\* movePlayer with the goal test's coordinates the wrong way round.
movePlayerGoalSwapped(newX, newY) ==
    LET cellKey == CellKey(newX, newY)
    IN  IF cellKey \in OBSTACLE_POSITIONS
        THEN /\ status' = STATUS_HIT
             /\ beeps' = <<BEEP_BLOCKED>>
             /\ timers' = timers + 1
             /\ UNCHANGED <<x, y, won>>
        ELSE /\ x' = newX
             /\ y' = newY
             /\ UNCHANGED timers
             /\ IF newX = GOAL_Y /\ newY = GOAL_X
                THEN /\ won' = TRUE
                     /\ status' = STATUS_VICTORY
                     /\ beeps' = <<BEEP_MOVE, BEEP_WIN>>
                ELSE /\ UNCHANGED won
                     /\ status' = STATUS_NONE
                     /\ beeps' = <<BEEP_MOVE>>

\* movePlayer with setWon(true) left out.
movePlayerNoWon(newX, newY) ==
    LET cellKey == CellKey(newX, newY)
    IN  IF cellKey \in OBSTACLE_POSITIONS
        THEN /\ status' = STATUS_HIT
             /\ beeps' = <<BEEP_BLOCKED>>
             /\ timers' = timers + 1
             /\ UNCHANGED <<x, y, won>>
        ELSE /\ x' = newX
             /\ y' = newY
             /\ UNCHANGED <<timers, won>>
             /\ IF newX = GOAL_X /\ newY = GOAL_Y
                THEN /\ status' = STATUS_VICTORY
                     /\ beeps' = <<BEEP_MOVE, BEEP_WIN>>
                ELSE /\ status' = STATUS_NONE
                     /\ beeps' = <<BEEP_MOVE>>

\* ------------------------------------------------------------ movePlayer
movePlayer(newX, newY) ==
    LET cellKey == CellKey(newX, newY)
    IN  IF cellKey \in OBSTACLE_POSITIONS
        THEN /\ status' = STATUS_HIT
             /\ beeps' = <<BEEP_BLOCKED>>
             /\ timers' = timers + 1
             /\ UNCHANGED <<x, y, won>>
        ELSE /\ x' = newX
             /\ y' = newY
             /\ UNCHANGED timers
             /\ IF newX = GOAL_X /\ newY = GOAL_Y
                THEN /\ won' = TRUE
                     /\ status' = STATUS_VICTORY
                     /\ beeps' = <<BEEP_MOVE, BEEP_WIN>>
                ELSE /\ UNCHANGED won
                     /\ status' = STATUS_NONE
                     /\ beeps' = <<BEEP_MOVE>>

\* A handler that returned without a call: nothing is set, nothing sounds.
Ignored ==
    /\ UNCHANGED <<x, y, won, status, timers>>
    /\ beeps' = <<>>

\* The part of the state no move handler touches.
MoveFrame ==
    /\ UNCHANGED <<showForm, showContactForm, feedback, rating,
                   submittedFeedback, localStorage>>
    /\ alerts' = <<>>

Directions == {"up", "down", "left", "right"}

\* handleMove with left and right the wrong way round.
TargetMirrored(direction, cx, cy) ==
    CASE direction = "up" -> <<cx, cy - 1>>
      [] direction = "down" -> <<cx, cy + 1>>
      [] direction = "left" -> <<cx + 1, cy>>
      [] direction = "right" -> <<cx - 1, cy>>

\* The cell a direction button aims at from (cx, cy).
Target(direction, cx, cy) ==
    CASE direction = "up" -> <<cx, cy - 1>>
      [] direction = "down" -> <<cx, cy + 1>>
      [] direction = "left" -> <<cx - 1, cy>>
      [] direction = "right" -> <<cx + 1, cy>>

\* The bounds tests of handleMove, each off by one.
MoveAllowedOffByOne(direction) ==
    \/ direction = "up" /\ y >= 1
    \/ direction = "down" /\ y <= ROWS
    \/ direction = "left" /\ x >= 1
    \/ direction = "right" /\ x <= COLS

\* Whether handleMove calls movePlayer for this direction.
MoveAllowed(direction) ==
    \/ direction = "up" /\ y > 1
    \/ direction = "down" /\ y < ROWS
    \/ direction = "left" /\ x > 1
    \/ direction = "right" /\ x < COLS

\* A call of movePlayer that would start one more timer than the model
\* keeps.
TimerRoom(cx, cy) ==
    CellKey(cx, cy) \in OBSTACLE_POSITIONS => timers < MaxTimers

\* A click on one of the four arrow buttons.
handleMove(direction) ==
    /\ Ran("handleMove", direction)
    /\ MoveFrame
    /\ IF won THEN Ignored
       ELSE IF MoveAllowed(direction)
            THEN LET t == Target(direction, x, y)
                 IN  TimerRoom(t[1], t[2]) /\ movePlayer(t[1], t[2])
            ELSE Ignored

\* The keydown handler with "if (won) return" left out.
keydownAfterWin(key) ==
    /\ Ran("keydown", key)
    /\ MoveFrame
    /\ IF key = "w" /\ y > 1
       THEN TimerRoom(x, y - 1) /\ movePlayer(x, y - 1)
       ELSE IF key = "s" /\ y < ROWS
       THEN TimerRoom(x, y + 1) /\ movePlayer(x, y + 1)
       ELSE IF key = "a" /\ x > 1
       THEN TimerRoom(x - 1, y) /\ movePlayer(x - 1, y)
       ELSE IF key = "d" /\ x < COLS
       THEN TimerRoom(x + 1, y) /\ movePlayer(x + 1, y)
       ELSE Ignored

Keys == {"w", "a", "s", "d", "q"}

\* A keydown on the window.
keydown(key) ==
    /\ Ran("keydown", key)
    /\ MoveFrame
    /\ IF won THEN Ignored
       ELSE IF key = "w" /\ y > 1
            THEN TimerRoom(x, y - 1) /\ movePlayer(x, y - 1)
       ELSE IF key = "s" /\ y < ROWS
            THEN TimerRoom(x, y + 1) /\ movePlayer(x, y + 1)
       ELSE IF key = "a" /\ x > 1
            THEN TimerRoom(x - 1, y) /\ movePlayer(x - 1, y)
       ELSE IF key = "d" /\ x < COLS
            THEN TimerRoom(x + 1, y) /\ movePlayer(x + 1, y)
       ELSE Ignored

\* A pending setTimeout(resetGame, 1500) callback runs.
timeout ==
    /\ timers > 0
    /\ Ran("timeout", "")
    /\ timers' = timers - 1
    /\ beeps' = <<>>
    /\ alerts' = <<>>
    /\ resetGame

\* -------------------------------------------------------- feedback flow
\* The part of the state the form handlers leave alone.
FormFrame ==
    /\ UNCHANGED <<x, y, won, status, timers>>
    /\ beeps' = <<>>

\* The "You won! Give feedback" button, rendered in the victory box.
openFeedback ==
    /\ won /\ ~showForm /\ ~showContactForm
    /\ Ran("openFeedback", "")
    /\ FormFrame
    /\ showForm' = TRUE
    /\ alerts' = <<>>
    /\ UNCHANGED <<showContactForm, feedback, rating, submittedFeedback,
                   localStorage>>

\* onChange of the textarea, rendered in the feedback form.
changeFeedback(value) ==
    /\ showForm
    /\ Ran("changeFeedback", "")
    /\ FormFrame
    /\ feedback' = value
    /\ alerts' = <<>>
    /\ UNCHANGED <<showForm, showContactForm, rating, submittedFeedback>>
    /\ localStorage' =
           DraftEffects(localStorage, feedback, feedback', rating, rating')

Stars == 1..5

\* onClick of a star, rendered in the feedback form.
clickStar(star) ==
    /\ showForm
    /\ Ran("clickStar", "")
    /\ FormFrame
    /\ rating' = star
    /\ alerts' = <<>>
    /\ UNCHANGED <<showForm, showContactForm, feedback, submittedFeedback>>
    /\ localStorage' =
           DraftEffects(localStorage, feedback, feedback', rating, rating')

\* handleSubmitFeedback testing feedback === "" without the trim.
handleSubmitFeedbackNoTrim ==
    /\ showForm
    /\ Ran("handleSubmitFeedback", "")
    /\ FormFrame
    /\ IF feedback = <<>>
       THEN /\ alerts' = <<ALERT_FEEDBACK>>
            /\ UNCHANGED <<showForm, showContactForm, feedback, rating,
                           submittedFeedback, localStorage>>
       ELSE IF rating = 0
       THEN /\ alerts' = <<ALERT_RATING>>
            /\ UNCHANGED <<showForm, showContactForm, feedback, rating,
                           submittedFeedback, localStorage>>
       ELSE /\ alerts' = <<>>
            /\ submittedFeedback' = Snapshot(feedback, rating)
            /\ showForm' = FALSE
            /\ feedback' = <<>>
            /\ rating' = 0
            /\ showContactForm' = TRUE
            /\ localStorage' =
                   DraftEffects(
                       removeItem(removeItem(localStorage, "feedbackDraft"),
                                  "ratingDraft"),
                       feedback, feedback', rating, rating')

\* handleSubmitFeedback storing the trimmed text instead of the draft.
handleSubmitFeedbackTrimmed ==
    /\ showForm
    /\ Ran("handleSubmitFeedback", "")
    /\ FormFrame
    /\ IF Trim(feedback) = <<>>
       THEN /\ alerts' = <<ALERT_FEEDBACK>>
            /\ UNCHANGED <<showForm, showContactForm, feedback, rating,
                           submittedFeedback, localStorage>>
       ELSE IF rating = 0
       THEN /\ alerts' = <<ALERT_RATING>>
            /\ UNCHANGED <<showForm, showContactForm, feedback, rating,
                           submittedFeedback, localStorage>>
       ELSE /\ alerts' = <<>>
            /\ submittedFeedback' = Snapshot(Trim(feedback), rating)
            /\ showForm' = FALSE
            /\ feedback' = <<>>
            /\ rating' = 0
            /\ showContactForm' = TRUE
            /\ localStorage' =
                   DraftEffects(
                       removeItem(removeItem(localStorage, "feedbackDraft"),
                                  "ratingDraft"),
                       feedback, feedback', rating, rating')

\* handleSubmitFeedback with setShowForm(false) left out.
handleSubmitFeedbackKeepsForm ==
    /\ showForm
    /\ Ran("handleSubmitFeedback", "")
    /\ FormFrame
    /\ IF Trim(feedback) = <<>>
       THEN /\ alerts' = <<ALERT_FEEDBACK>>
            /\ UNCHANGED <<showForm, showContactForm, feedback, rating,
                           submittedFeedback, localStorage>>
       ELSE IF rating = 0
       THEN /\ alerts' = <<ALERT_RATING>>
            /\ UNCHANGED <<showForm, showContactForm, feedback, rating,
                           submittedFeedback, localStorage>>
       ELSE /\ alerts' = <<>>
            /\ submittedFeedback' = Snapshot(feedback, rating)
            /\ UNCHANGED showForm
            /\ feedback' = <<>>
            /\ rating' = 0
            /\ showContactForm' = TRUE
            /\ localStorage' =
                   DraftEffects(
                       removeItem(removeItem(localStorage, "feedbackDraft"),
                                  "ratingDraft"),
                       feedback, feedback', rating, rating')

\* onSubmit of the feedback form.
handleSubmitFeedback ==
    /\ showForm
    /\ Ran("handleSubmitFeedback", "")
    /\ FormFrame
    /\ IF Trim(feedback) = <<>>
       THEN /\ alerts' = <<ALERT_FEEDBACK>>
            /\ UNCHANGED <<showForm, showContactForm, feedback, rating,
                           submittedFeedback, localStorage>>
       ELSE IF rating = 0
       THEN /\ alerts' = <<ALERT_RATING>>
            /\ UNCHANGED <<showForm, showContactForm, feedback, rating,
                           submittedFeedback, localStorage>>
       ELSE /\ alerts' = <<>>
            /\ submittedFeedback' = Snapshot(feedback, rating)
            /\ showForm' = FALSE
            /\ feedback' = <<>>
            /\ rating' = 0
            /\ showContactForm' = TRUE
            /\ localStorage' =
                   DraftEffects(
                       removeItem(removeItem(localStorage, "feedbackDraft"),
                                  "ratingDraft"),
                       feedback, feedback', rating, rating')

\* Whether the "Restart Game" button is rendered: it is part of the
\* contact-form block.
RestartRendered == showContactForm

\* A click on the "Restart Game" button.
clickRestart ==
    /\ RestartRendered
    /\ Ran("clickRestart", "")
    /\ UNCHANGED timers
    /\ beeps' = <<>>
    /\ alerts' = <<>>
    /\ resetGame

\* The page is loaded again: the state hooks start over, the pending
\* timers go with the old page, the stored drafts stay, and the effects of
\* the first render run.
reload ==
    /\ Ran("mount", "")
    /\ x' = START_X
    /\ y' = START_Y
    /\ won' = FALSE
    /\ showForm' = FALSE
    /\ showContactForm' = FALSE
    /\ status' = STATUS_NONE
    /\ submittedFeedback' = Null
    /\ feedback' = MountEffects(localStorage).feedback
    /\ rating' = MountEffects(localStorage).rating
    /\ localStorage' = MountEffects(localStorage).localStorage
    /\ timers' = 0
    /\ beeps' = <<>>
    /\ alerts' = <<>>

\* ------------------------------------------------------ the state machine
\* The events of one page, from its load to the next.
PageNext ==
    \/ \E direction \in Directions : handleMove(direction)
    \/ \E key \in Keys : keydown(key)
    \/ timeout
    \/ openFeedback
    \/ \E value \in Texts : changeFeedback(value)
    \/ \E star \in Stars : clickStar(star)
    \/ handleSubmitFeedback
    \/ clickRestart

Next ==
    \/ PageNext
    \/ reload

Spec == Init /\ [][Next]_vars

\* One page that is never reloaded, in a browser that runs a pending timer
\* callback once its delay has passed.
FairSpec == Init /\ [][PageNext]_vars /\ WF_vars(timeout)

\* ------------------------------------------------------------ the stages
\* The stage the render shows, from the conditions of its blocks.
Stage ==
    CASE submittedFeedback.isNull /\ ~won /\ ~showForm /\ ~showContactForm
             -> "Playing"
      [] submittedFeedback.isNull /\ won /\ ~showForm /\ ~showContactForm
             -> "Victory"
      [] submittedFeedback.isNull /\ won /\ showForm /\ ~showContactForm
             -> "FeedbackOpen"
      [] ~submittedFeedback.isNull /\ ~showForm /\ ~showContactForm
             -> "FeedbackSubmitted"
      [] ~submittedFeedback.isNull /\ won /\ ~showForm /\ showContactForm
             -> "ContactOpen"
      [] OTHER -> "None"

TypeOK ==
    /\ x \in 1..COLS
    /\ y \in 1..ROWS
    /\ won \in BOOLEAN
    /\ showForm \in BOOLEAN
    /\ showContactForm \in BOOLEAN
    /\ status \in {STATUS_NONE, STATUS_HIT, STATUS_VICTORY}
    /\ feedback \in Texts
    /\ rating \in 0..5
    /\ timers \in 0..MaxTimers

\* ================================================================ claims
\* The vocabulary of the claims: cells as coordinate pairs.
ObstacleCells ==
    { <<2, 1>>, <<3, 2>>, <<5, 3>>, <<7, 4>>, <<9, 5>>, <<11, 6>>,
      <<13, 7>>, <<5, 8>>, <<8, 9>>, <<10, 10>> }
GoalCell == <<GOAL_X, GOAL_Y>>
InBounds(c) == c[1] >= 1 /\ c[1] <= COLS /\ c[2] >= 1 /\ c[2] <= ROWS

\* The unit vector of a direction; y grows downwards.
Delta(direction) ==
    CASE direction = "up" -> <<0, -1>> [] direction = "down" -> <<0, 1>>
      [] direction = "left" -> <<-1, 0>> [] direction = "right" -> <<1, 0>>

LastIsMove == last.op \in {"handleMove", "keydown"}
LastDirection ==
    IF last.op = "handleMove" THEN last.arg ELSE KeyDirection(last.arg)
\* The last handler was a move attempt in one of the four directions.
LastIsAttempt == LastIsMove /\ LastDirection \in Directions
\* The cell the last move attempt aimed at.
Aim ==
    <<last.pre.x + Delta(LastDirection)[1],
      last.pre.y + Delta(LastDirection)[2]>>

\* The state hooks are what they were when the last handler started.
HooksKept ==
    /\ x = last.pre.x
    /\ y = last.pre.y
    /\ won = last.pre.won
    /\ showForm = last.pre.showForm
    /\ showContactForm = last.pre.showContactForm
    /\ status = last.pre.status
    /\ feedback = last.pre.feedback
    /\ rating = last.pre.rating
    /\ submittedFeedback = last.pre.submittedFeedback

\* C1: a move attempt, made while the game is not won, at a cell that is in
\* bounds and no obstacle puts the player exactly on that cell and sounds
\* the move cue, beep(500), first.
C1_MoveReachesTarget ==
    (LastIsAttempt /\ ~last.pre.won /\ InBounds(Aim)
        /\ Aim \notin ObstacleCells)
    => /\ <<x, y>> = Aim
       /\ beeps # <<>>
       /\ beeps[1] = BEEP_MOVE

\* C1 witness: a move to an empty cell below the player has been made.
C1_Witness ==
    /\ LastIsAttempt /\ ~last.pre.won
    /\ LastDirection = "down"
    /\ Aim \notin ObstacleCells /\ Aim # GoalCell
    /\ <<x, y>> = Aim
    /\ y = last.pre.y + 1
    /\ beeps = <<BEEP_MOVE>>

\* C2: a move attempt at an obstacle cell leaves the position and the won
\* flag as they were, sets the status to the obstacle message and sounds
\* the blocked cue, beep(150), and nothing else.
C2_ObstacleBlocks ==
    (LastIsAttempt /\ Aim \in ObstacleCells)
    => /\ x = last.pre.x
       /\ y = last.pre.y
       /\ won = last.pre.won
       /\ status = STATUS_HIT
       /\ beeps = <<BEEP_BLOCKED>>

\* C2 witness: the player, next to an obstacle, has walked into it.
C2_Witness ==
    /\ LastIsAttempt
    /\ Aim \in ObstacleCells
    /\ <<x, y>> # Aim
    /\ status = STATUS_HIT
    /\ beeps = <<BEEP_BLOCKED>>
    /\ timers = last.pre.timers + 1

\* A blocked move has just been made.
JustBlocked == LastIsAttempt /\ beeps = <<BEEP_BLOCKED>>
\* A timer callback has just run.
JustFired == last.op = "timeout"

\* C3: after a blocked move a timer callback eventually runs, given that
\* the browser runs pending callbacks, and right after any callback has run
\* the player is on (1,1), the game is not won and the stage is Playing.
C3_BlockedThenReset ==
    /\ JustBlocked ~> JustFired
    /\ [](JustFired => x = 1 /\ y = 1 /\ ~won /\ Stage = "Playing")

\* C3 witness: the callback has run while the obstacle message was still
\* shown, so nothing had reset the game since the hit, and the player is
\* back on the start cell from somewhere else.
C3_Witness ==
    /\ JustFired
    /\ last.pre.status = STATUS_HIT
    /\ <<last.pre.x, last.pre.y>> # <<1, 1>>
    /\ x = 1 /\ y = 1 /\ ~won /\ Stage = "Playing"

\* C4: a move attempt at the goal cell puts the player on it, sets won,
\* sounds the move cue and then the win cue, and gives the stage Victory.
C4_GoalWins ==
    (LastIsAttempt /\ ~last.pre.won /\ Aim = <<14, 10>>)
    => /\ x = 14 /\ y = 10
       /\ won
       /\ beeps = <<BEEP_MOVE, BEEP_WIN>>
       /\ ~showForm /\ ~showContactForm
       /\ Stage = "Victory"

\* C4 witness: the player has stepped onto the goal.
C4_Witness ==
    /\ LastIsAttempt /\ ~last.pre.won
    /\ Aim = <<14, 10>>
    /\ won /\ Stage = "Victory"
    /\ <<x, y>> = <<14, 10>>

\* C5: once the game is won, a click on an arrow button or a key press
\* changes no state hook, sounds nothing, starts no timer and stores
\* nothing.
C5_NoMoveAfterWin ==
    (LastIsMove /\ last.pre.won)
    => /\ HooksKept
       /\ beeps = <<>>
       /\ alerts = <<>>
       /\ timers = last.pre.timers
       /\ localStorage = last.pre.localStorage

\* C5 witness: a movement key was pressed after the win, with room to
\* move.
C5_Witness ==
    /\ last.op = "keydown" /\ last.arg = "w"
    /\ last.pre.won
    /\ last.pre.y > 1
    /\ won

\* C6: a move attempt that would leave the grid changes no state hook,
\* sounds nothing, starts no timer and stores nothing.
C6_EdgeIsSilent ==
    (LastIsAttempt /\ ~InBounds(Aim))
    => /\ HooksKept
       /\ beeps = <<>>
       /\ alerts = <<>>
       /\ timers = last.pre.timers
       /\ localStorage = last.pre.localStorage

\* C6 witness: on the right edge, not on the start cell and with the game
\* not won, a move to the right was attempted.
C6_Witness ==
    /\ LastIsAttempt /\ LastDirection = "right"
    /\ ~last.pre.won
    /\ last.pre.x = COLS
    /\ x = COLS

\* A text with no character but blanks.
IsBlank(t) == \A i \in 1..Len(t) : t[i] = " "
JustSubmitted == last.op = "handleSubmitFeedback"

\* C7: a submission of a blank text or of rating 0 leaves the feedback form
\* open, raises an alert and leaves the draft, the submitted feedback and
\* the stored drafts as they were.
C7_InvalidSubmitStays ==
    (JustSubmitted /\ (IsBlank(last.pre.feedback) \/ last.pre.rating = 0))
    => /\ Stage = "FeedbackOpen"
       /\ alerts # <<>>
       /\ feedback = last.pre.feedback
       /\ rating = last.pre.rating
       /\ submittedFeedback = last.pre.submittedFeedback
       /\ localStorage = last.pre.localStorage

\* C7 witness: a text of blanks only was submitted with a rating given.
C7_Witness ==
    /\ JustSubmitted
    /\ last.pre.feedback # <<>> /\ IsBlank(last.pre.feedback)
    /\ last.pre.rating > 0
    /\ alerts = <<ALERT_FEEDBACK>>
    /\ showForm

\* C8: a submission of a text that is not blank with a rating in 1..5
\* closes the feedback form, opens the contact form, keeps the draft's
\* text and rating as the submitted feedback and empties the draft.
C8_ValidSubmitAdvances ==
    (JustSubmitted /\ ~IsBlank(last.pre.feedback)
        /\ last.pre.rating \in 1..5)
    => /\ Stage = "ContactOpen"
       /\ ~showForm /\ showContactForm
       /\ ~submittedFeedback.isNull
       /\ submittedFeedback.text = last.pre.feedback
       /\ submittedFeedback.rating = last.pre.rating
       /\ feedback = <<>>
       /\ rating = 0

\* C8 witness: a text with a blank at an end was submitted with a rating.
C8_Witness ==
    /\ JustSubmitted
    /\ last.pre.feedback # Trim(last.pre.feedback)
    /\ ~IsBlank(last.pre.feedback)
    /\ last.pre.rating = 4
    /\ showContactForm
    /\ submittedFeedback.text = last.pre.feedback

\* resetGame has just run, from the button or from a timer.
JustReset == last.op \in {"clickRestart", "timeout"}
CanonicalHooks ==
    /\ x = 1 /\ y = 1
    /\ ~won
    /\ ~showForm /\ ~showContactForm
    /\ Stage = "Playing"
    /\ feedback = <<>> /\ rating = 0
    /\ submittedFeedback.isNull
    /\ status = ""

\* C9: right after resetGame has run, from whatever state, the player is
\* on (1,1), the game is not won, both forms are closed, the draft is
\* empty with rating 0, no feedback is submitted and the status is empty;
\* and a run of resetGame right after another changes no state hook.
C9_RestartCanonical ==
    /\ [](JustReset => CanonicalHooks)
    /\ [][(JustReset /\ (timeout \/ clickRestart)) => hooks' = hooks]_vars

\* C9 witness: the restart button was clicked with feedback submitted.
C9_Witness ==
    /\ last.op = "clickRestart"
    /\ ~last.pre.submittedFeedback.isNull
    /\ last.pre.won
    /\ CanonicalHooks

\* C10: in every state the Restart Game button can be clicked.
C10_RestartAlwaysAvailable == ENABLED clickRestart


\* The page has just been loaded.
JustMounted == last.op = "mount"
\* What was stored when the last handler started.
StoredText == last.pre.localStorage["feedbackDraft"]
StoredRating == last.pre.localStorage["ratingDraft"]
HadStoredText == StoredText.present /\ StoredText.value # <<>>
HadStoredRating ==
    /\ StoredRating.present
    /\ \E r \in 1..5 : StoredRating.value = <<DigitChar(r)>>

\* C11: when the page is loaded with a text that is not empty or a rating
\* in 1..5 stored, the draft in memory after the effects of the first
\* render is the stored text and rating, and the store still holds them.
C11_DraftRoundTrip ==
    JustMounted
    => /\ HadStoredText
          => /\ feedback = StoredText.value
             /\ localStorage["feedbackDraft"] = StoredText
       /\ HadStoredRating
          => /\ <<DigitChar(rating)>> = StoredRating.value
             /\ localStorage["ratingDraft"] = StoredRating

\* A handler has just given the draft text, or the draft rating, a new
\* value.
TextMutated == last.op = "changeFeedback" /\ feedback # last.pre.feedback
RatingMutated == last.op = "clickStar" /\ rating # last.pre.rating

\* C12 as stated: after a mutation of the draft text or rating in the open
\* feedback form, the stored text is the text in memory and the stored
\* rating is the decimal rendering of the rating in memory.
C12_BothKeysSaved ==
    (TextMutated \/ RatingMutated)
    => /\ localStorage["feedbackDraft"] = [present |-> TRUE, value |-> feedback]
       /\ localStorage["ratingDraft"]
              = [present |-> TRUE, value |-> <<DigitChar(rating)>>]

\* A key that holds the value in memory, or no entry while the value in
\* memory is the one the draft starts with.
TextKeyInStep ==
    \/ localStorage["feedbackDraft"] = [present |-> TRUE, value |-> feedback]
    \/ ~localStorage["feedbackDraft"].present /\ feedback = <<>>
RatingKeyInStep ==
    \/ localStorage["ratingDraft"]
           = [present |-> TRUE, value |-> <<DigitChar(rating)>>]
    \/ ~localStorage["ratingDraft"].present /\ rating = 0

\* C12 amended: after a mutation of the draft text the stored text is the
\* text in memory, after a mutation of the rating the stored rating is the
\* decimal rendering of the rating in memory, and the key of the other
\* field holds that field's value in memory or has no entry while that
\* field still is '' or 0.
C12_MutatedKeySaved ==
    /\ TextMutated
       => /\ Stage = "FeedbackOpen"
          /\ localStorage["feedbackDraft"]
                 = [present |-> TRUE, value |-> feedback]
          /\ RatingKeyInStep
    /\ RatingMutated
       => /\ Stage = "FeedbackOpen"
          /\ localStorage["ratingDraft"]
                 = [present |-> TRUE, value |-> <<DigitChar(rating)>>]
          /\ TextKeyInStep

\* C12 witness: a text was typed over another while the store held no
\* rating.
C12_Witness ==
    /\ TextMutated
    /\ last.pre.feedback # <<>> /\ feedback # <<>>
    /\ ~localStorage["ratingDraft"].present
    /\ localStorage["feedbackDraft"].value = feedback


\* C16: the contact form is shown exactly when a submitted feedback is
\* held.
C16_ContactIffSubmitted == showContactForm <=> ~submittedFeedback.isNull

\* C16 witness: after a submission the contact form is shown with the
\* submitted feedback held.
C16_Witness ==
    /\ JustSubmitted
    /\ showContactForm
    /\ ~submittedFeedback.isNull
    /\ last.pre.submittedFeedback.isNull
    /\ ~last.pre.showContactForm

\* The last handler took the game out of Playing by a win, or was a click
\* on the restart button.
JustLeftPending ==
    \/ LastIsAttempt /\ ~last.pre.won /\ won
    \/ last.op = "clickRestart"

\* C17: after a win and after a click on the restart button no timer
\* started earlier is pending any more.
C17_TimerCancelled == JustLeftPending => timers = 0

\* C18: at most one timer is pending.
C18_AtMostOneTimer == timers <= 1

\* C19: while a timer is pending the stage is Playing, so that a timer
\* callback never runs in another stage.
C19_PendingOnlyWhilePlaying == timers > 0 => Stage = "Playing"

\* C20: after a submission that was accepted, and the effects of its
\* render, the store has no entry for the text and none for the rating.
C20_StoreEmptyAfterSubmit ==
    (JustSubmitted /\ showContactForm)
    => /\ ~localStorage["feedbackDraft"].present
       /\ ~localStorage["ratingDraft"].present


\* No handler since the page was loaded has sounded the blocked cue.
NeverBlocked == ~blockedBefore /\ beeps # <<BEEP_BLOCKED>>
\* The last handler was the k-th of a run of Right attempts made from the
\* state the page loads in, for some k in 1..9.
InRightsRun ==
    LastIsAttempt /\ inputs # <<>> /\ inputs # Off /\ IsPrefix(inputs, NineRights)

\* C13 as stated: nine Right attempts from the state the page loads in
\* leave the player on (10,1) with nine Moved and no Blocked.
C13_NineRightsReachTen ==
    (LastIsAttempt /\ inputs = NineRights)
    => /\ <<x, y>> = <<10, 1>>
       /\ NeverBlocked
       /\ beeps = <<BEEP_MOVE>>

\* C13 amended: every one of nine Right attempts from the state the page
\* loads in aims at the obstacle (2,1), is Blocked and leaves the player
\* on (1,1): nine Blocked, no Moved.
C13_NineRightsAllBlocked ==
    InRightsRun
    => /\ Aim = <<2, 1>>
       /\ <<x, y>> = <<1, 1>>
       /\ beeps = <<BEEP_BLOCKED>>
       /\ status = STATUS_HIT

\* C13 witness: the ninth Right attempt has been made.
C13_Witness ==
    /\ LastIsAttempt
    /\ inputs = NineRights
    /\ <<x, y>> = <<1, 1>>
    /\ beeps = <<BEEP_BLOCKED>>
    /\ blockedBefore

\* The last handler was the Right attempt of Down then Right, made from
\* the state the page loads in.
AfterDownRight == LastIsAttempt /\ inputs = DownRight

\* C14 as stated: Down then Right from the state the page loads in aims at
\* the obstacle (2,1), is Blocked and sets the obstacle status.
C14_DownRightHitsObstacle ==
    AfterDownRight
    => /\ Aim = <<2, 1>>
       /\ beeps = <<BEEP_BLOCKED>>
       /\ status = STATUS_HIT

\* C14 amended: Down then Right from the state the page loads in aims at
\* the empty cell (2,2) and puts the player there: two Moved, no Blocked,
\* an empty status and no timer started.
C14_DownRightReachesTwoTwo ==
    AfterDownRight
    => /\ <<last.pre.x, last.pre.y>> = <<1, 2>>
       /\ Aim = <<2, 2>>
       /\ <<x, y>> = <<2, 2>>
       /\ beeps = <<BEEP_MOVE>>
       /\ NeverBlocked
       /\ status = ""
       /\ timers = 0

\* C14 witness: Down then Right have been made and the player is on (2,2).
C14_Witness ==
    /\ AfterDownRight
    /\ <<x, y>> = <<2, 2>>
    /\ timers = 0

\* The last move attempt brought the player onto the goal, and no attempt
\* since the page was loaded was Blocked.
CleanArrival ==
    /\ LastIsAttempt
    /\ NeverBlocked
    /\ <<last.pre.x, last.pre.y>> # <<14, 10>>
    /\ <<x, y>> = <<14, 10>>

\* C15: a move attempt that brings the player onto (14,10) with no attempt
\* Blocked since the page was loaded sounds the win cue, sets won and
\* gives the stage Victory; the witness is such a path.
C15_CleanPathWins ==
    CleanArrival
    => /\ won
       /\ beeps = <<BEEP_MOVE, BEEP_WIN>>
       /\ Stage = "Victory"

\* C15 witness: the goal has been reached from the state the page loads
\* in by move attempts alone, none of them Blocked.
C15_Witness ==
    /\ CleanArrival
    /\ timers = 0
    /\ last.pre.localStorage = localStorage
    /\ won /\ Stage = "Victory"


\* C21: after a win App's gameFinished eventually is true and App renders
\* the contact form in place of the game.
C21_WinFinishesGame == won ~> (gameFinished /\ AppRenders = "ContactForm")

\* What the code does in place of C21: gameFinished is never true and App
\* renders the game throughout.
C21_NeverFinished == ~gameFinished /\ AppRenders = "GridGame"

\* C22: exactly one stage is active: the feedback form and the contact form
\* are never both open, either of them open implies won, and the flags
\* decode to one of Playing, Victory, FeedbackOpen, ContactOpen.
C22_OneStage ==
    /\ ~(showForm /\ showContactForm)
    /\ (showForm \/ showContactForm) => won
    /\ Stage \in {"Playing", "Victory", "FeedbackOpen", "ContactOpen"}

\* The contact form opened by a submit from the open feedback form, the
\* game still won.
C22_Witness ==
    /\ JustSubmitted
    /\ last.pre.showForm
    /\ ~last.pre.showContactForm
    /\ showContactForm
    /\ ~showForm
    /\ won
    /\ Stage = "ContactOpen"

\* C23: the player is always inside the grid, 1 <= x <= 15 and
\* 1 <= y <= 10, and never on one of the ten obstacle cells.
C23_PositionLegal ==
    /\ x >= 1 /\ x <= 15
    /\ y >= 1 /\ y <= 10
    /\ <<x, y>> \notin ObstacleCells

\* A move aimed at the obstacle (10,10) from the bottom-right part of the
\* grid left the player beside it.
C23_Witness ==
    /\ LastIsAttempt
    /\ Aim = <<10, 10>>
    /\ <<last.pre.x, last.pre.y>> = <<11, 10>>
    /\ <<x, y>> = <<11, 10>>

\* C24: won holds exactly when the player is on the goal cell (14,10),
\* also after a delayed reset or a restart.
C24_WonIffOnGoal == won <=> (<<x, y>> = <<14, 10>>)

\* A delayed reset that ran after the win took the player off the goal and
\* cleared won together.
C24_Witness ==
    /\ JustFired
    /\ last.pre.won
    /\ <<last.pre.x, last.pre.y>> = <<14, 10>>
    /\ ~won
    /\ <<x, y>> = <<1, 1>>

====
